---- MODULE Spec2Model ----
(***************************************************************************)
(* Token-transfer coin handlers of the CryptoToken Converter:              *)
(* BitsharesManager (balance check, fee subtraction, issue, send and the   *)
(* send_or_issue fallback), SteemManager.send and SteemEngineManager       *)
(* issue/send, over an abstract ledger of one asset; and, under SpecQuery,   *)
(* the read-only operations balance, address_valid, health and health_test.*)
(*                                                                         *)
(* Amounts.  A requested amount is a Python value: a Decimal or a float.   *)
(* Its numeric value is kept as an integer count of 10^-Digits, so an      *)
(* asset of precision p has a minimum unit of Pow10(Digits - p) counts.    *)
(* Ledger balances and the supply are integers in minimum units of the     *)
(* asset (what int(Amount) gives in the Bitshares library).                *)
(***************************************************************************)
EXTENDS Integers, Sequences, FiniteSets, TLC

\* ------------------------------------------------------------------ bounds
MaxPrecision == 1
\* largest whole number of minimum units in a requested amount
MaxUnits == 2
\* largest network fee, in minimum units of the asset
MaxFee == 2
\* issuing stops when the supply would exceed this many minimum units
MaxSupply == 3
\* longest transfer history a balance query by memo goes through
MaxTransfers == 2

\* requested amounts carry one digit more than the largest precision
Digits == MaxPrecision + 1
\* the digit that follows the asset's precision in a requested amount
ExcessDigits == {0, 4, 5, 9}

Procs == {1, 2}
\* the accounts the networks know, and the names callers may pass
Accounts == {"our", "alice"}
Names == Accounts \cup {"ghost"}
Destinations == {"alice", "ghost"}
None == ""
Sources == {None, "our", "ghost"}

RECURSIVE Pow10(_)
Pow10(n) == IF n = 0 THEN 1 ELSE 10 * Pow10(n - 1)

\* counts of 10^-Digits in one minimum unit of an asset of precision p
Unit(p) == Pow10(Digits - p)

\* 5^n: a count v of 10^-Digits is a binary fraction iff Pow5(Digits) divides it
RECURSIVE Pow5(_)
Pow5(n) == IF n = 0 THEN 1 ELSE 5 * Pow5(n - 1)

\* ------------------------------------------------------- Python values
\* err is the sign of (binary value of a float - its decimal literal): 0 for a
\* Decimal and for a float whose literal is a binary fraction.
IsHalf(v, p) == 2 * (v % Unit(p)) = Unit(p)

ErrsOf(v, p) ==
    IF IsHalf(v, p) /\ v % Pow5(Digits) # 0 THEN {-1, 1} ELSE {0}

\* requested amounts for an asset of precision p: up to p + 1 fractional digits
ValuesFor(p) ==
    {(q * 10 + r) * Pow10(Digits - p - 1) : q \in 0..MaxUnits, r \in ExcessDigits}

\* BitsharesManager takes the amount as a Decimal
DecimalsFor(p) == {[kind |-> "Decimal", val |-> v, err |-> 0] : v \in ValuesFor(p)}

\* SteemManager and SteemEngineManager take a Decimal or a float
AmountsFor(p) ==
    DecimalsFor(p)
    \cup UNION {{[kind |-> "float", val |-> v, err |-> e] : e \in ErrsOf(v, p)} : v \in ValuesFor(p)}

\* mutant: nothing counts as empty
empty_Never(x) == FALSE

\* steemengine.helpers.empty: None and '' are empty
empty(x) == x = None

\* getcontext().rounding = ROUND_DOWN, set when the module is imported
ContextRounding == "ROUND_DOWN"

\* Decimal.__format__ with '.<p>f': rescales to p places with the context's rounding
RoundDecimal(v, p, rounding) ==
    LET u == Unit(p)
        down == (v \div u) * u
        rem == v % u
    IN  IF rounding = "ROUND_DOWN" THEN down
        ELSE \* ROUND_HALF_EVEN
             IF 2 * rem > u \/ (2 * rem = u /\ (v \div u) % 2 = 1) THEN down + u ELSE down

\* float.__format__ with '.<p>f': the nearest p-place decimal to the binary value,
\* whatever the decimal context says
RoundFloat(v, err, p) ==
    LET u == Unit(p)
        down == (v \div u) * u
        rem == v % u
    IN  IF 2 * rem > u THEN down + u
        ELSE IF 2 * rem < u THEN down
        ELSE IF err > 0 THEN down + u
        ELSE IF err < 0 THEN down
        ELSE IF (v \div u) % 2 = 1 THEN down + u ELSE down

\* ('{0:.' + str(precision) + 'f}').format(amount), as the value of the string
FormatAmount(amount, p) ==
    IF amount.kind = "float" THEN RoundFloat(amount.val, amount.err, p)
    ELSE RoundDecimal(amount.val, p, ContextRounding)

\* ---------------------------------------------------------------- state
VARIABLES
    backend,        \* which coin handler serves the coin: "Bitshares", "Steem", "SteemEngine"
    precision,      \* the asset's precision, as the network reports it
    our_account,    \* self.coin.our_account: "" when not configured
    assetExists,    \* the network knows the symbol
    keys,           \* the key pair stored for the platform account "our": "none",
                    \* "stale" (not the keys of the account's authority) or "ok"
    balance,        \* account -> balance of the asset, in minimum units
    supply,         \* current supply of the asset, in minimum units
    pc,             \* proc -> position of the call in progress
    call,           \* proc -> the outermost call and its arguments
    log,            \* proc -> the send and issue invocations made by the call, in order
    ops,            \* proc -> the operations the call has broadcast, in order
    result,         \* proc -> what the call returned or raised
    snap            \* proc -> balances and supply when the call began

ledger == <<balance, supply>>
remoteState == <<assetExists, keys>>
config == <<backend, precision, our_account>>
procState == <<pc, call, log, ops, result, snap>>
vars == <<backend, precision, our_account, assetExists, keys,
          balance, supply, pc, call, log, ops, result, snap>>

NoCall == [op |-> "none", amount |-> [kind |-> "Decimal", val |-> 0, err |-> 0],
           address |-> None, from_address |-> None]
NoResult == [err |-> "pending", txid |-> None, amount |-> 0, fee |-> 0,
             from |-> None, send_type |-> None]

\* an exception leaving the handler
Raise(e) == [NoResult EXCEPT !.err = e]

Last(s) == s[Len(s)]
SetLast(s, x) == [s EXCEPT ![Len(s)] = x]

\* get_account_obj(name) is not None
AccountFound(a) == a \in Accounts

\* the key pair stored for an account: the platform stores no keys but its own
KeysOf(a) == IF a = "our" THEN keys ELSE "none"

\* BitsharesMixin.set_wallet_keys(account, ['memo', 'active']): raises
\* AuthorityMissing when no key pair is stored for the account
set_wallet_keys(a) == IF KeysOf(a) # "none" THEN "none" ELSE "AuthorityMissing"

\* finalizeOp / broadcast sign with the keys in the wallet: KeyNotFound unless they
\* are the account's keys
SignError(a) == IF KeysOf(a) = "ok" THEN "none" ELSE "KeyNotFound"

\* BitsharesMixin.get_decimal_from_amount: minimum units -> decimal value
get_decimal_from_amount(units) == units * Unit(precision)

\* int(Amount(str_amount, symbol)): decimal value -> minimum units
IntAmount(v) == v \div Unit(precision)

\* ------------------------------------------------------ BitsharesManager
is_amount_above_minimum(amount, p) ==
    LET minimum_unit == Unit(p)
    IN  IF amount < minimum_unit THEN FALSE ELSE TRUE

\* the amount of the transfer caller q is about to broadcast from an account
Pending(q, from) ==
    IF pc[q] = "SEND_BROADCAST" /\ Last(log[q]).from = from
    THEN Last(log[q]).str_amount ELSE 0

\* mutant: the balance check sets aside what other callers are about to send
BtsSendChecks_Reserving(amount, address, from_address) ==
    LET from == IF empty(from_address) THEN our_account ELSE from_address
        str_amount == FormatAmount(amount, precision)
        r0 == <<"set_wallet_keys">>
        r1 == Append(r0, "get_asset_obj")
        r2 == Append(r1, "get_account_obj")
        r3 == Append(r2, "get_account_obj")
        r4 == Append(r3, "balance")
        Out(e, r) == [err |-> e, remote |-> r, from |-> from, amount |-> str_amount]
    IN  IF empty(from_address) /\ empty(our_account) THEN Out("AttributeError", <<>>)
        ELSE IF set_wallet_keys(from) # "none" THEN Out(set_wallet_keys(from), r0)
        ELSE IF ~assetExists THEN Out("TokenNotFound", r1)
        ELSE IF ~is_amount_above_minimum(str_amount, precision) THEN Out("ArithmeticError", r1)
        ELSE IF ~AccountFound(from) THEN Out("AccountNotFound", r2)
        ELSE IF ~AccountFound(address) THEN Out("AccountNotFound", r3)
        ELSE IF get_decimal_from_amount(balance[from]) - Pending(1, from) - Pending(2, from)
                    < str_amount
             THEN Out("NotEnoughBalance", r4)
        ELSE Out("none", r4)

\* send, from its first line to the balance check: the error raised ("none" when
\* every check passes), the remote calls made, the source and the trimmed amount
BtsSendChecks(amount, address, from_address) ==
    LET from == IF empty(from_address) THEN our_account ELSE from_address
        str_amount == FormatAmount(amount, precision)
        r0 == <<"set_wallet_keys">>
        r1 == Append(r0, "get_asset_obj")
        r2 == Append(r1, "get_account_obj")
        r3 == Append(r2, "get_account_obj")
        r4 == Append(r3, "balance")
        Out(e, r) == [err |-> e, remote |-> r, from |-> from, amount |-> str_amount]
    IN  IF empty(from_address) /\ empty(our_account) THEN Out("AttributeError", <<>>)
        ELSE IF set_wallet_keys(from) # "none" THEN Out(set_wallet_keys(from), r0)
        ELSE IF ~assetExists THEN Out("TokenNotFound", r1)
        ELSE IF ~is_amount_above_minimum(str_amount, precision) THEN Out("ArithmeticError", r1)
        ELSE IF ~AccountFound(from) THEN Out("AccountNotFound", r2)
        ELSE IF ~AccountFound(address) THEN Out("AccountNotFound", r3)
        ELSE IF get_decimal_from_amount(balance[from]) < str_amount
             THEN Out("NotEnoughBalance", r4)
        ELSE Out("none", r4)

\* mutant: the fee is reported but never subtracted from the amount
BtsSendFinish_FeeNotSubtracted(from, address, str_amount, raw_fee) ==
    LET net == IntAmount(str_amount)
        Out(e, r, sent) == [err |-> e, remote |-> r, net |-> net, fee |-> raw_fee, sent |-> sent]
    IN  IF net < 1 THEN Out("ArithmeticError", <<"add_required_fees">>, FALSE)
        ELSE IF SignError(from) = "KeyNotFound"
             THEN Out("AuthorityMissing", <<"add_required_fees">>, FALSE)
        ELSE IF balance[from] < net
             THEN Out("RPCError", <<"add_required_fees", "broadcast">>, FALSE)
        ELSE Out("none", <<"add_required_fees", "broadcast">>, TRUE)

\* mutant: only a negative amount is refused after the fee is subtracted
BtsSendFinish_ZeroNetAllowed(from, address, str_amount, raw_fee) ==
    LET net == IntAmount(str_amount) - raw_fee
        Out(e, r, sent) == [err |-> e, remote |-> r, net |-> net, fee |-> raw_fee, sent |-> sent]
    IN  IF net < 0 THEN Out("ArithmeticError", <<"add_required_fees">>, FALSE)
        ELSE IF SignError(from) = "KeyNotFound"
             THEN Out("AuthorityMissing", <<"add_required_fees">>, FALSE)
        ELSE IF balance[from] < net + raw_fee
             THEN Out("RPCError", <<"add_required_fees", "broadcast">>, FALSE)
        ELSE Out("none", <<"add_required_fees", "broadcast">>, TRUE)

\* mutant: the transfer is broadcast before the signature is found missing
BtsSendFinish_SignAfterBroadcast(from, address, str_amount, raw_fee) ==
    LET net == IntAmount(str_amount) - raw_fee
        Out(e, r, sent) == [err |-> e, remote |-> r, net |-> net, fee |-> raw_fee, sent |-> sent]
    IN  IF net < 1 THEN Out("ArithmeticError", <<"add_required_fees">>, FALSE)
        ELSE IF balance[from] < net + raw_fee
             THEN Out("RPCError", <<"add_required_fees", "broadcast">>, FALSE)
        ELSE IF SignError(from) = "KeyNotFound"
             THEN Out("AuthorityMissing", <<"add_required_fees", "broadcast">>, TRUE)
        ELSE Out("none", <<"add_required_fees", "broadcast">>, TRUE)

\* send, the try block: fee query, fee subtraction, signing and broadcast, for a
\* network fee of raw_fee minimum units
BtsSendFinish(from, address, str_amount, raw_fee) ==
    LET net == IntAmount(str_amount) - raw_fee
        Out(e, r, sent) == [err |-> e, remote |-> r, net |-> net, fee |-> raw_fee, sent |-> sent]
    IN  IF net < 1 THEN Out("ArithmeticError", <<"add_required_fees">>, FALSE)
        ELSE IF SignError(from) = "KeyNotFound"
             THEN Out("AuthorityMissing", <<"add_required_fees">>, FALSE)
        ELSE IF balance[from] < net + raw_fee
             THEN Out("RPCError", <<"add_required_fees", "broadcast">>, FALSE)
        ELSE Out("none", <<"add_required_fees", "broadcast">>, TRUE)

\* issue: the error raised ("none" when the tokens are issued), the remote calls
\* made and the trimmed amount
BtsIssueChecks(amount, address) ==
    LET str_amount == FormatAmount(amount, precision)
        r0 == <<"get_asset_obj">>
        r1 == Append(r0, "get_account_obj")
        r2 == Append(r1, "set_wallet_keys")
        r3 == Append(r2, "broadcast")
        Out(e, r) == [err |-> e, remote |-> r, amount |-> str_amount]
    IN  IF ~assetExists THEN Out("TokenNotFound", r0)
        ELSE IF ~is_amount_above_minimum(str_amount, precision) THEN Out("ArithmeticError", r0)
        ELSE IF ~AccountFound(address) THEN Out("AccountNotFound", r1)
        ELSE IF set_wallet_keys(address) = "AuthorityMissing" THEN Out("IssuerKeyError", r2)
        ELSE IF SignError(address) = "KeyNotFound" THEN Out("IssuerKeyError", r2)
        ELSE Out("none", r3)

\* mutant: the fee is not taken from the source
Transferred_NetOnly(from, to, net, fee) ==
    [balance EXCEPT ![from] = @ - net, ![to] = @ + net]

\* the ledger after a broadcast transfer: the source pays amount and fee
Transferred(from, to, net, fee) ==
    [balance EXCEPT ![from] = @ - (net + fee), ![to] = @ + net]

\* one send or issue invocation made by a call: its arguments, the source and the
\* trimmed amount it resolved, how it ended, the remote calls it made and the fee
\* add_required_fees answered (0 until it is asked)
SendEntry(amount, address, from_address) ==
    LET c == BtsSendChecks(amount, address, from_address)
    IN  [op |-> "send", amount |-> amount, address |-> address,
         from_address |-> from_address, from |-> c.from, str_amount |-> c.amount,
         res |-> c.err, remote |-> c.remote, raw_fee |-> 0]

IssueEntry(amount, address) ==
    LET c == BtsIssueChecks(amount, address)
    IN  [op |-> "issue", amount |-> amount, address |-> address,
         from_address |-> None, from |-> address, str_amount |-> c.amount,
         res |-> c.err, remote |-> c.remote, raw_fee |-> 0]

Begin(p, op, amount, address, from_address) ==
    /\ call' = [call EXCEPT ![p] = [op |-> op, amount |-> amount, address |-> address,
                                    from_address |-> from_address]]
    /\ snap' = [snap EXCEPT ![p] = [balance |-> balance, supply |-> supply]]
    /\ ops' = [ops EXCEPT ![p] = <<>>]

\* the checks of a send have run: raise, or go on to the try block
AfterSendChecks(p, c, entries) ==
    /\ log' = [log EXCEPT ![p] = Append(entries, c)]
    /\ IF c.res = "none"
       THEN /\ pc' = [pc EXCEPT ![p] = "SEND_BROADCAST"]
            /\ result' = [result EXCEPT ![p] = NoResult]
       ELSE /\ pc' = [pc EXCEPT ![p] = "DONE"]
            /\ result' = [result EXCEPT ![p] = Raise(c.res)]

\* BitsharesManager.send called directly
BtsSend(p) ==
    /\ backend = "Bitshares" /\ pc[p] = "idle"
    /\ \E amount \in DecimalsFor(precision), address \in Destinations,
          from_address \in Sources :
          /\ Begin(p, "send", amount, address, from_address)
          /\ AfterSendChecks(p, SendEntry(amount, address, from_address), <<>>)
    /\ UNCHANGED <<config, remoteState, ledger>>

\* mutant: no fallback, every failure of the first send is raised
FirstSendGoesTo_NoFallback(res) ==
    IF res = "none" THEN "SEND_BROADCAST" ELSE "DONE"

\* mutant: the except clause catches every exception
FirstSendGoesTo_AnyError(res) ==
    IF res = "none" THEN "SEND_BROADCAST" ELSE "ISSUE_TO_SELF"

\* what send_or_issue does with the outcome of its first send
FirstSendGoesTo(res) ==
    IF res = "NotEnoughBalance" THEN "ISSUE_TO_SELF"
    ELSE IF res = "none" THEN "SEND_BROADCAST"
    ELSE "DONE"

\* send_or_issue, ATTEMPT_SEND: the first send, with no from_address
BtsSendOrIssue(p) ==
    /\ backend = "Bitshares" /\ pc[p] = "idle"
    /\ \E amount \in DecimalsFor(precision), address \in Destinations :
          LET c == SendEntry(amount, address, None)
          IN  /\ Begin(p, "send_or_issue", amount, address, None)
              /\ log' = [log EXCEPT ![p] = <<c>>]
              /\ pc' = [pc EXCEPT ![p] = FirstSendGoesTo(c.res)]
              /\ result' = [result EXCEPT ![p] =
                    IF FirstSendGoesTo(c.res) = "DONE" THEN Raise(c.res) ELSE NoResult]
    /\ UNCHANGED <<config, remoteState, ledger>>

\* mutant: the send_type of the retried send is left as it is
SendTypeOf_Unchanged(p) == "send"

\* the send_type of the dict send_or_issue returns
SendTypeOf(p) ==
    IF call[p].op = "send_or_issue" /\ Len(log[p]) > 1 THEN "issue" ELSE "send"

\* the try block of a send: fee, signature, broadcast, and the returned dict
BtsSendBroadcast(p) ==
    /\ pc[p] = "SEND_BROADCAST"
    /\ \E raw_fee \in 0..MaxFee :
          LET inv == Last(log[p])
              f == BtsSendFinish(inv.from, inv.address, inv.str_amount, raw_fee)
          IN  /\ log' = [log EXCEPT ![p] = SetLast(@, [inv EXCEPT !.res = f.err,
                                                   !.remote = inv.remote \o f.remote,
                                                   !.raw_fee = raw_fee])]
              /\ pc' = [pc EXCEPT ![p] = "DONE"]
              /\ IF f.sent
                 THEN /\ balance' = Transferred(inv.from, inv.address, f.net, f.fee)
                      /\ ops' = [ops EXCEPT ![p] = Append(@, [type |-> "transfer",
                                    from |-> inv.from, to |-> inv.address,
                                    amount |-> f.net, fee |-> f.fee,
                                    value |-> get_decimal_from_amount(f.net)])]
                 ELSE UNCHANGED <<balance, ops>>
              /\ result' = [result EXCEPT ![p] =
                    IF f.err = "none"
                    THEN [err |-> "none", txid |-> None,
                          amount |-> get_decimal_from_amount(f.net),
                          fee |-> get_decimal_from_amount(f.fee),
                          from |-> inv.from,
                          send_type |-> SendTypeOf(p)]
                    ELSE Raise(f.err)]
    /\ UNCHANGED <<config, remoteState, supply, call, snap>>

\* mutant: only the shortfall is issued
Issued_Shortfall(p, c) ==
    LET n == IntAmount(c.str_amount) - balance[c.address]
    IN  /\ supply + n <= MaxSupply
        /\ supply' = supply + n
        /\ balance' = [balance EXCEPT ![c.address] = @ + n]
        /\ ops' = [ops EXCEPT ![p] = Append(@, [type |-> "asset_issue", from |-> c.address,
                      to |-> c.address, amount |-> n, fee |-> 0,
                      value |-> get_decimal_from_amount(n)])]

\* mutant: the supply grows but the tokens are not credited to the account
Issued_NotCredited(p, c) ==
    /\ supply + IntAmount(c.str_amount) <= MaxSupply
    /\ supply' = supply + IntAmount(c.str_amount)
    /\ balance' = balance
    /\ ops' = [ops EXCEPT ![p] = Append(@, [type |-> "asset_issue", from |-> c.address,
                  to |-> c.address, amount |-> IntAmount(c.str_amount), fee |-> 0,
                  value |-> c.str_amount])]

\* the ledger effect of an issue that passed its checks
Issued(p, c) ==
    /\ supply + IntAmount(c.str_amount) <= MaxSupply
    /\ supply' = supply + IntAmount(c.str_amount)
    /\ balance' = [balance EXCEPT ![c.address] = @ + IntAmount(c.str_amount)]
    /\ ops' = [ops EXCEPT ![p] = Append(@, [type |-> "asset_issue", from |-> c.address,
                  to |-> c.address, amount |-> IntAmount(c.str_amount), fee |-> 0,
                  value |-> c.str_amount])]

\* BitsharesManager.issue called directly
BtsIssue(p) ==
    /\ backend = "Bitshares" /\ pc[p] = "idle"
    /\ \E amount \in DecimalsFor(precision), address \in Names :
          LET c == IssueEntry(amount, address)
          IN  /\ call' = [call EXCEPT ![p] = [op |-> "issue", amount |-> amount,
                                             address |-> address, from_address |-> None]]
              /\ snap' = [snap EXCEPT ![p] = [balance |-> balance, supply |-> supply]]
              /\ log' = [log EXCEPT ![p] = <<c>>]
              /\ pc' = [pc EXCEPT ![p] = "DONE"]
              /\ IF c.res = "none"
                 THEN /\ Issued(p, c)
                      /\ result' = [result EXCEPT ![p] =
                            [err |-> "none", txid |-> None,
                             amount |-> get_decimal_from_amount(IntAmount(c.str_amount)),
                             fee |-> 0, from |-> address, send_type |-> "issue"]]
                 ELSE /\ result' = [result EXCEPT ![p] = Raise(c.res)]
                      /\ UNCHANGED <<ledger, ops>>
    /\ UNCHANGED <<config, remoteState>>

\* mutant: a failed issue is swallowed and the send is retried all the same
AfterIssueGoesTo_Swallowed(res) == "SEND_AGAIN"

\* what send_or_issue does with the outcome of the issue
AfterIssueGoesTo(res) == IF res = "none" THEN "SEND_AGAIN" ELSE "DONE"

\* send_or_issue, ISSUE_TO_SELF: issue(amount, our_account); its dict is dropped
BtsIssueToSelf(p) ==
    /\ pc[p] = "ISSUE_TO_SELF"
    /\ LET c == IssueEntry(call[p].amount, our_account)
       IN  /\ log' = [log EXCEPT ![p] = Append(@, c)]
           /\ pc' = [pc EXCEPT ![p] = AfterIssueGoesTo(c.res)]
           /\ result' = [result EXCEPT ![p] =
                 IF AfterIssueGoesTo(c.res) = "DONE" THEN Raise(c.res) ELSE NoResult]
           /\ IF c.res = "none" THEN Issued(p, c) ELSE UNCHANGED <<ledger, ops>>
    /\ UNCHANGED <<config, remoteState, call, snap>>

\* mutant: a failure of the second send starts the fallback again
SecondSendGoesTo_IssueAgain(res) ==
    IF res = "none" THEN "SEND_BROADCAST" ELSE "ISSUE_TO_SELF"

\* what send_or_issue does with the outcome of its second send
SecondSendGoesTo(res) == IF res = "none" THEN "SEND_BROADCAST" ELSE "DONE"

\* send_or_issue, SEND_AGAIN: the second send, with from_address = our_account
BtsSendAgain(p) ==
    /\ pc[p] = "SEND_AGAIN"
    /\ LET c == SendEntry(call[p].amount, call[p].address, our_account)
       IN  /\ log' = [log EXCEPT ![p] = Append(@, c)]
           /\ pc' = [pc EXCEPT ![p] = SecondSendGoesTo(c.res)]
           /\ result' = [result EXCEPT ![p] =
                 IF SecondSendGoesTo(c.res) = "DONE" THEN Raise(c.res) ELSE NoResult]
    /\ UNCHANGED <<config, remoteState, ledger, call, ops, snap>>

\* the process dies in the middle of a call
Crash(p) ==
    /\ pc[p] \in {"SEND_BROADCAST", "ISSUE_TO_SELF", "SEND_AGAIN"}
    /\ pc' = [pc EXCEPT ![p] = "CRASHED"]
    /\ UNCHANGED <<config, remoteState, ledger, call, log, ops, result, snap>>

\* the caller has its answer; the next call starts from scratch
Return(p) ==
    /\ pc[p] \in {"DONE", "CRASHED"}
    /\ pc' = [pc EXCEPT ![p] = "idle"]
    /\ call' = [call EXCEPT ![p] = NoCall]
    /\ log' = [log EXCEPT ![p] = <<>>]
    /\ ops' = [ops EXCEPT ![p] = <<>>]
    /\ result' = [result EXCEPT ![p] = NoResult]
    /\ snap' = [snap EXCEPT ![p] = [balance |-> balance, supply |-> supply]]
    /\ UNCHANGED <<config, remoteState, ledger>>

\* ---------------------------------------------------------- SteemManager
\* Decimal(pow(10, -prec)): pow gives a float for prec > 0, and the binary value of
\* that float lies above 10^-prec (0.1 is 0.1000000000000000055...)
MinimumOfPow(prec) == [val |-> Unit(prec), err |-> IF prec = 0 THEN 0 ELSE 1]

\* amount < Decimal(pow(10, -prec)), for an exact decimal amount
BelowPow(v, prec) ==
    LET m == MinimumOfPow(prec)
    IN  v < m.val \/ (v = m.val /\ m.err > 0)

\* send and issue of Steem and SteemEngine trim a float and keep a Decimal as it is
TrimIfFloat(amount, p) ==
    IF amount.kind = "float" THEN RoundFloat(amount.val, amount.err, p) ELSE amount.val

\* SteemManager.send: the error raised ("none" when the transfer is broadcast), the
\* remote calls made, the source and the amount after conversion
SteemSendChecks(amount, address, from_address) ==
    LET from == IF empty(from_address) THEN our_account ELSE from_address
        amt == TrimIfFloat(amount, precision)
        r1 == <<"Account">>
        r2 == Append(r1, "Account")
        r3 == Append(r2, "Account")
        r4 == Append(r3, "get_balance")
        r5 == Append(r4, "transfer")
        Out(e, r) == [err |-> e, remote |-> r, from |-> from, amount |-> amt]
    IN  IF empty(from_address) /\ empty(our_account) THEN Out("AttributeError", <<>>)
        ELSE IF BelowPow(amt, precision) THEN Out("ArithmeticError", <<>>)
        ELSE IF ~AccountFound(from) THEN Out("AccountDoesNotExistsException", r1)
        ELSE IF ~AccountFound(address) THEN Out("AccountNotFound", r2)
        ELSE IF ~AccountFound(from) THEN Out("AccountNotFound", r3)
        ELSE IF get_decimal_from_amount(balance[from]) < amt THEN Out("NotEnoughBalance", r4)
        ELSE IF KeysOf(from) # "ok" THEN Out("AuthorityMissing", r5)
        ELSE Out("none", r5)

\* SteemMixin.find_steem_tx, then tx.get('transaction_id', None): the id of the
\* transaction just broadcast, None when it cannot be recovered
find_steem_tx(recovered) == IF recovered THEN "txid" ELSE None

\* txid = t['transaction_id'] if 'transaction_id' in t, else None
TxidIn(recovered) == IF recovered THEN "txid" ELSE None

\* mutant: a broadcast whose transaction id is not recovered is reported as failed
Succeeded_NeedsTxid(op, c, txid) ==
    IF txid = None THEN Raise("AttributeError")
    ELSE [err |-> "none", txid |-> txid, amount |-> c.amount, fee |-> 0,
          from |-> c.from, send_type |-> op]

\* the dict a send or issue of Steem and SteemEngine returns after its broadcast
Succeeded(op, c, txid) ==
    [err |-> "none", txid |-> txid, amount |-> c.amount, fee |-> 0,
     from |-> c.from, send_type |-> op]

\* a send or issue that runs in one step: record the call and its only invocation
OneStep(p, op, amount, address, from_address, c, txid) ==
    /\ call' = [call EXCEPT ![p] = [op |-> op, amount |-> amount, address |-> address,
                                    from_address |-> from_address]]
    /\ snap' = [snap EXCEPT ![p] = [balance |-> balance, supply |-> supply]]
    /\ log' = [log EXCEPT ![p] = <<[op |-> op, amount |-> amount, address |-> address,
                  from_address |-> from_address, from |-> c.from, str_amount |-> c.amount,
                  res |-> c.err, remote |-> c.remote, raw_fee |-> 0]>>]
    /\ pc' = [pc EXCEPT ![p] = "DONE"]
    /\ result' = [result EXCEPT ![p] =
          IF c.err = "none" THEN Succeeded(op, c, txid) ELSE Raise(c.err)]

\* the ledger moves whole minimum units: the network cuts the amount it is handed
SteemSend(p) ==
    /\ backend = "Steem" /\ pc[p] = "idle"
    /\ \E amount \in AmountsFor(precision), address \in Destinations,
          from_address \in Sources, recovered \in BOOLEAN :
          LET c == SteemSendChecks(amount, address, from_address)
          IN  /\ OneStep(p, "send", amount, address, from_address, c,
                         find_steem_tx(recovered))
              /\ IF c.err = "none"
                 THEN /\ balance' = Transferred(c.from, address, IntAmount(c.amount), 0)
                      /\ ops' = [ops EXCEPT ![p] = <<[type |-> "transfer", from |-> c.from,
                                    to |-> address, amount |-> IntAmount(c.amount),
                                    fee |-> 0, value |-> c.amount]>>]
                 ELSE UNCHANGED <<balance, ops>>
    /\ UNCHANGED <<config, remoteState, supply>>

\* ---------------------------------------------------- SteemEngineManager
\* eng_rpc.send_token: the SteemEngine client checks the amount it is handed, the
\* accounts and the balance, then signs with the sender's active key
EngSendToken(from, address, amt) ==
    IF amt < Unit(precision) THEN "ArithmeticError"
    ELSE IF ~AccountFound(from) \/ ~AccountFound(address) THEN "SENG.AccountNotFound"
    ELSE IF get_decimal_from_amount(balance[from]) < amt THEN "SENG.NotEnoughBalance"
    ELSE IF KeysOf(from) # "ok" THEN "MissingKeyError"
    ELSE "none"

\* eng_rpc.issue_token: the client checks the amount and the receiving account, then
\* signs with the issuer's active key
EngIssueToken(address, amt) ==
    IF amt < Unit(precision) THEN "ArithmeticError"
    ELSE IF ~AccountFound(address) THEN "SENG.AccountNotFound"
    ELSE IF KeysOf("our") # "ok" THEN "MissingKeyError"
    ELSE "none"

\* the except clauses of SteemEngineManager.send
EngSendExcept(e) ==
    IF e = "SENG.AccountNotFound" THEN "AccountNotFound"
    ELSE IF e = "SENG.TokenNotFound" THEN "TokenNotFound"
    ELSE IF e = "SENG.NotEnoughBalance" THEN "NotEnoughBalance"
    ELSE IF e = "MissingKeyError" THEN "AuthorityMissing"
    ELSE e

\* the except clauses of SteemEngineManager.issue
EngIssueExcept(e) ==
    IF e = "SENG.AccountNotFound" THEN "AccountNotFound"
    ELSE IF e = "MissingKeyError" THEN "IssuerKeyError"
    ELSE e

EngSendChecks(amount, address, from_address) ==
    LET from == IF empty(from_address) THEN our_account ELSE from_address
        amt == TrimIfFloat(amount, precision)
        Out(e, r) == [err |-> e, remote |-> r, from |-> from, amount |-> amt]
    IN  IF empty(from_address) /\ empty(our_account) THEN Out("AttributeError", <<>>)
        ELSE IF ~assetExists THEN Out(EngSendExcept("SENG.TokenNotFound"), <<"get_token">>)
        ELSE Out(EngSendExcept(EngSendToken(from, address, amt)), <<"get_token", "send_token">>)

EngIssueChecks(amount, address) ==
    LET amt == TrimIfFloat(amount, precision)
        Out(e, r) == [err |-> e, remote |-> r, from |-> "our", amount |-> amt]
    IN  IF ~assetExists THEN Out(EngIssueExcept("SENG.TokenNotFound"), <<"get_token">>)
        ELSE Out(EngIssueExcept(EngIssueToken(address, amt)),
                 <<"get_token", "get_token", "issue_token">>)

EngSend(p) ==
    /\ backend = "SteemEngine" /\ pc[p] = "idle"
    /\ \E amount \in AmountsFor(precision), address \in Destinations,
          from_address \in Sources, recovered \in BOOLEAN :
          LET c == EngSendChecks(amount, address, from_address)
          IN  /\ OneStep(p, "send", amount, address, from_address, c, TxidIn(recovered))
              /\ IF c.err = "none"
                 THEN /\ balance' = Transferred(c.from, address, IntAmount(c.amount), 0)
                      /\ ops' = [ops EXCEPT ![p] = <<[type |-> "transfer", from |-> c.from,
                                    to |-> address, amount |-> IntAmount(c.amount),
                                    fee |-> 0, value |-> c.amount]>>]
                 ELSE UNCHANGED <<balance, ops>>
    /\ UNCHANGED <<config, remoteState, supply>>

EngIssue(p) ==
    /\ backend = "SteemEngine" /\ pc[p] = "idle"
    /\ \E amount \in AmountsFor(precision), address \in Names, recovered \in BOOLEAN :
          LET c == EngIssueChecks(amount, address)
          IN  /\ OneStep(p, "issue", amount, address, None, c, TxidIn(recovered))
              /\ IF c.err = "none"
                 THEN /\ supply + IntAmount(c.amount) <= MaxSupply
                      /\ supply' = supply + IntAmount(c.amount)
                      /\ balance' = [balance EXCEPT ![address] = @ + IntAmount(c.amount)]
                      /\ ops' = [ops EXCEPT ![p] = <<[type |-> "issue", from |-> "our",
                                    to |-> address, amount |-> IntAmount(c.amount),
                                    fee |-> 0, value |-> c.amount]>>]
                 ELSE UNCHANGED <<ledger, ops>>
    /\ UNCHANGED <<config, remoteState>>

\* ---------------------------------------------------------------- queries
\* how a remote lookup ends: with an answer, or with a failure of the connection
RemoteFaults == {"timeout", "malformed"}
Outcomes == {"answer"} \cup RemoteFaults

\* a query and its arguments; outcome is how the remote lookups of the query end
QueryCall(op, address, memo, memo_case, txs, outcome) ==
    [op |-> op, address |-> address, memo |-> memo, memo_case |-> memo_case,
     txs |-> txs, outcome |-> outcome]

\* what a query hands back: the value returned, or the exception that left it
Returned(v, amt) == [err |-> "none", ret |-> v, amount |-> amt]
Raised(e) == [err |-> e, ret |-> None, amount |-> 0]

\* a query runs in one step and changes nothing but the caller's own records
Answer(p, q, r) ==
    /\ call' = [call EXCEPT ![p] = q]
    /\ result' = [result EXCEPT ![p] = r]
    /\ pc' = [pc EXCEPT ![p] = "DONE"]
    /\ UNCHANGED <<config, remoteState, ledger, log, ops, snap>>

\* BitsharesManager.address_valid: get_account_obj inside try / bare except
Bts_address_valid(address, outcome) ==
    IF outcome # "answer" THEN Returned("False", 0)
    ELSE IF ~AccountFound(address) THEN Returned("False", 0)
    ELSE Returned("True", 0)

\* SteemManager.address_valid: Account(address) inside try / except
\* AccountDoesNotExistsException; any other exception leaves the method
Steem_address_valid(address, outcome) ==
    IF outcome # "answer" THEN Raised(outcome)
    ELSE IF ~AccountFound(address) THEN Returned("False", 0)
    ELSE Returned("True", 0)

\* SteemEngineManager.address_valid: eng_rpc.account_exists inside try / bare except
Eng_address_valid(address, outcome) ==
    IF outcome # "answer" THEN Returned("False", 0)
    ELSE IF AccountFound(address) THEN Returned("True", 0)
    ELSE Returned("False", 0)

BtsAddressValid(p) ==
    /\ backend = "Bitshares" /\ pc[p] = "idle"
    /\ \E address \in Names, outcome \in Outcomes :
          Answer(p, QueryCall("address_valid", address, None, FALSE, <<>>, outcome),
                 Bts_address_valid(address, outcome))

SteemAddressValid(p) ==
    /\ backend = "Steem" /\ pc[p] = "idle"
    /\ \E address \in Names, outcome \in Outcomes :
          Answer(p, QueryCall("address_valid", address, None, FALSE, <<>>, outcome),
                 Steem_address_valid(address, outcome))

EngAddressValid(p) ==
    /\ backend = "SteemEngine" /\ pc[p] = "idle"
    /\ \E address \in Names, outcome \in Outcomes :
          Answer(p, QueryCall("address_valid", address, None, FALSE, <<>>, outcome),
                 Eng_address_valid(address, outcome))

\* memos as callers pass them and as the ledger records them
Memos == {"A", "a", "B"}

\* str.lower
lower(m) == IF m = "A" THEN "a" ELSE IF m = "B" THEN "b" ELSE m

\* the history list_transactions returns: up to MaxTransfers transfers of the
\* symbol, the i-th of quantity 1, 2, 4, ...
RECURSIVE Quantity(_)
Quantity(i) == IF i = 1 THEN 1 ELSE 2 * Quantity(i - 1)

Histories == UNION {[1..n -> [to : Accounts, memo : Memos]] : n \in 0..MaxTransfers}

\* SteemEngineManager.balance, the loop over the transactions: the quantities of the
\* first n transfers to the address whose memo matches
RECURSIVE MemoTotal(_, _, _, _, _)
MemoTotal(txs, n, address, memo, memo_case) ==
    IF n = 0 THEN 0
    ELSE LET t == txs[n]
             m == t.memo
             rest == MemoTotal(txs, n - 1, address, memo, memo_case)
         IN  IF t.to = address /\ (m = memo \/ (~memo_case /\ m = lower(memo)))
             THEN rest + Quantity(n)
             ELSE rest

\* eng_rpc.get_token_balance: the balance the sidechain holds for the user; for a
\* user it does not know the client answers zero or fails with its own exception
EngGetTokenBalance(user, unknown) ==
    IF AccountFound(user)
    THEN Returned(None, IF assetExists THEN get_decimal_from_amount(balance[user]) ELSE 0)
    ELSE IF unknown = "zero" THEN Returned(None, 0)
    ELSE Raised("SENG.AccountNotFound")

\* BitsharesManager.balance
Bts_balance(address, memo) ==
    LET a == IF address = None THEN our_account ELSE address
    IN  IF ~empty(memo) THEN Raised("TypeError")
        ELSE IF a = None THEN Raised("AttributeError")
        ELSE IF ~AccountFound(a) THEN Raised("AccountNotFound")
        ELSE IF assetExists THEN Returned(None, get_decimal_from_amount(balance[a]))
        ELSE Returned(None, 0)

\* SteemManager.balance without a memo
Steem_balance(address) ==
    LET a == IF address = None THEN our_account ELSE address
    IN  IF ~AccountFound(a) THEN Raised("AccountDoesNotExistsException")
        ELSE Returned(None, get_decimal_from_amount(balance[a]))

\* SteemEngineManager.balance
Eng_balance(address, memo, memo_case, txs, unknown) ==
    LET a == IF address = None THEN our_account ELSE address
    IN  IF a = None THEN Raised("AttributeError")
        ELSE IF empty(memo) THEN EngGetTokenBalance(a, unknown)
        ELSE Returned(None, MemoTotal(txs, Len(txs), a, memo, memo_case))

BtsBalance(p) ==
    /\ backend = "Bitshares" /\ pc[p] = "idle"
    /\ \E address \in {None} \cup Names, memo \in {None} \cup Memos, memo_case \in BOOLEAN :
          Answer(p, QueryCall("balance", address, memo, memo_case, <<>>, "answer"),
                 Bts_balance(address, memo))

SteemBalance(p) ==
    /\ backend = "Steem" /\ pc[p] = "idle"
    /\ \E address \in {None} \cup Names :
          Answer(p, QueryCall("balance", address, None, FALSE, <<>>, "answer"),
                 Steem_balance(address))

EngBalance(p) ==
    /\ backend = "SteemEngine" /\ pc[p] = "idle"
    /\ \E address \in {None} \cup Names, memo \in {None} \cup Memos :
       \E memo_case \in (IF empty(memo) THEN {FALSE} ELSE BOOLEAN),
          txs \in (IF empty(memo) THEN {<<>>} ELSE Histories),
          unknown \in (IF empty(memo) /\ address = "ghost" THEN {"zero", "raise"} ELSE {"zero"}) :
          Answer(p, QueryCall("balance", address, memo, memo_case, txs, unknown),
                 Eng_balance(address, memo, memo_case, txs, unknown))

\* the remote calls of a health check, one of which may fail: the asset or token
\* lookup, the lookup of the platform account, its balance, the node's properties
HealthFaults == {"none", "asset", "account", "balance", "props"}

\* mutant: health without its try / except
Steem_health_Unguarded(fault) ==
    IF fault # "none" THEN Raised(fault)
    ELSE IF ~AccountFound(our_account) THEN Raised("AccountDoesNotExistsException")
    ELSE Returned("Okay", 0)

\* BitsharesManager.health: the status of the record it returns
Bts_health(fault) ==
    LET asset_status == IF assetExists THEN "Okay" ELSE "ERROR"
    IN  IF fault \in {"asset", "account"} THEN Returned("UNHANDLED EXCEPTION", 0)
        ELSE IF ~AccountFound(our_account) THEN Returned("ERROR", 0)
        ELSE IF assetExists /\ fault = "balance" THEN Returned("UNHANDLED EXCEPTION", 0)
        ELSE Returned(asset_status, 0)

\* SteemManager.health: address_valid and balance of the platform account, then the
\* node's properties, all inside try / bare except
Steem_health(fault) ==
    LET valid == Steem_address_valid(our_account, IF fault = "account" THEN "timeout" ELSE "answer")
        bal == Steem_balance(our_account)
    IN  IF valid.err # "none" THEN Returned("ERROR", 0)
        ELSE IF bal.err # "none" \/ fault \in {"balance", "props"} THEN Returned("ERROR", 0)
        ELSE IF valid.ret = "False" THEN Returned("Account not found", 0)
        ELSE Returned("Okay", 0)

\* SteemEngineManager.health: account_exists, get_token, balance of the platform
\* account, all inside try / bare except
Eng_health(fault, unknown) ==
    LET bal == Eng_balance(our_account, None, FALSE, <<>>, unknown)
    IN  IF fault \in {"account", "asset", "balance"} THEN Returned("ERROR", 0)
        ELSE IF ~assetExists \/ bal.err # "none" THEN Returned("ERROR", 0)
        ELSE IF ~AccountFound(our_account) THEN Returned("Account not found", 0)
        ELSE Returned("Okay", 0)

\* health_test: True when 'Okay' is in the status of health(), False otherwise and
\* on any exception
health_test(h) ==
    [err |-> "none", amount |-> 0, status |-> h.ret,
     ret |-> IF h.err = "none" /\ h.ret = "Okay" THEN "True" ELSE "False"]

BtsHealth(p) ==
    /\ backend = "Bitshares" /\ pc[p] = "idle"
    /\ \E fault \in HealthFaults \ {"props"} :
          Answer(p, QueryCall("health", our_account, None, FALSE, <<>>, fault),
                 Bts_health(fault))

SteemHealth(p) ==
    /\ backend = "Steem" /\ pc[p] = "idle"
    /\ \E fault \in HealthFaults \ {"asset"} :
          Answer(p, QueryCall("health", our_account, None, FALSE, <<>>, fault),
                 Steem_health(fault))

EngHealth(p) ==
    /\ backend = "SteemEngine" /\ pc[p] = "idle"
    /\ \E fault \in HealthFaults \ {"props"}, unknown \in {"zero", "raise"} :
          /\ unknown = "raise" => our_account = "ghost"
          /\ Answer(p, QueryCall("health", our_account, None, FALSE, <<>>, fault),
                    Eng_health(fault, unknown))

\* health_test of BitsharesManager and of SteemManager
HealthTest(p) ==
    /\ backend \in {"Bitshares", "Steem"} /\ pc[p] = "idle"
    /\ \E fault \in HealthFaults :
          /\ backend = "Bitshares" => fault # "props"
          /\ backend = "Steem" => fault # "asset"
          /\ Answer(p, QueryCall("health_test", our_account, None, FALSE, <<>>, fault),
                    health_test(IF backend = "Bitshares" THEN Bts_health(fault)
                                ELSE Steem_health(fault)))

\* ---------------------------------------------------------- the networks
\* the remote state moves between calls: the asset and the stored keys come and go
AssetChanges ==
    /\ backend # "Steem"
    /\ assetExists' = ~assetExists
    /\ UNCHANGED <<config, keys, ledger, procState>>

KeysChange ==
    /\ \E k \in {"none", "stale", "ok"} : k # keys /\ keys' = k
    /\ UNCHANGED <<config, assetExists, ledger, procState>>

\* ------------------------------------------------------------------ spec
Init ==
    /\ backend \in {"Bitshares", "Steem", "SteemEngine"}
    /\ precision \in 0..MaxPrecision
    \* STEEM and SBD, the coins of SteemManager, have fractional digits
    /\ backend = "Steem" => precision > 0
    /\ our_account \in {None, "our"}
    /\ assetExists = TRUE
    /\ keys = "ok"
    /\ \E b \in 0..MaxSupply :
          /\ balance = [a \in Accounts |-> IF a = "our" THEN b ELSE 0]
          /\ supply = b
    /\ pc = [p \in Procs |-> "idle"]
    /\ call = [p \in Procs |-> NoCall]
    /\ log = [p \in Procs |-> <<>>]
    /\ ops = [p \in Procs |-> <<>>]
    /\ result = [p \in Procs |-> NoResult]
    /\ snap = [p \in Procs |-> [balance |-> balance, supply |-> supply]]

\* one caller at a time
Next ==
    \/ BtsSend(1)
    \/ BtsSendOrIssue(1)
    \/ BtsSendBroadcast(1)
    \/ BtsIssue(1)
    \/ BtsIssueToSelf(1)
    \/ BtsSendAgain(1)
    \/ SteemSend(1)
    \/ EngSend(1)
    \/ EngIssue(1)
    \/ Crash(1)
    \/ Return(1)
    \/ AssetChanges
    \/ KeysChange

Spec == Init /\ [][Next]_vars

\* the read-only operations, one caller, on a ledger that does not move; the
\* platform account may be one the network does not know
InitQuery ==
    /\ backend \in {"Bitshares", "Steem", "SteemEngine"}
    /\ precision \in 0..MaxPrecision
    /\ backend = "Steem" => precision > 0
    /\ our_account \in {None, "our", "ghost"}
    /\ assetExists = TRUE
    /\ keys = "ok"
    /\ \E b \in 0..MaxSupply :
          /\ balance = [a \in Accounts |-> IF a = "our" THEN b ELSE 0]
          /\ supply = b
    /\ pc = [p \in Procs |-> "idle"]
    /\ call = [p \in Procs |-> NoCall]
    /\ log = [p \in Procs |-> <<>>]
    /\ ops = [p \in Procs |-> <<>>]
    /\ result = [p \in Procs |-> NoResult]
    /\ snap = [p \in Procs |-> [balance |-> balance, supply |-> supply]]

NextQuery ==
    \/ BtsAddressValid(1)
    \/ SteemAddressValid(1)
    \/ EngAddressValid(1)
    \/ BtsBalance(1)
    \/ SteemBalance(1)
    \/ EngBalance(1)
    \/ BtsHealth(1)
    \/ SteemHealth(1)
    \/ EngHealth(1)
    \/ HealthTest(1)
    \/ Return(1)
    \/ AssetChanges

SpecQuery == InitQuery /\ [][NextQuery]_vars

\* two callers of BitsharesManager at once, each step of a call interleaved with
\* the other's: whole amounts of at least one minimum unit, sent to alice from
\* the platform account
InitConc ==
    /\ backend = "Bitshares"
    /\ precision \in 0..MaxPrecision
    /\ our_account = "our"
    /\ assetExists = TRUE
    /\ keys = "ok"
    /\ \E b \in 0..MaxSupply :
          /\ balance = [a \in Accounts |-> IF a = "our" THEN b ELSE 0]
          /\ supply = b
    /\ pc = [p \in Procs |-> "idle"]
    /\ call = [p \in Procs |-> NoCall]
    /\ log = [p \in Procs |-> <<>>]
    /\ ops = [p \in Procs |-> <<>>]
    /\ result = [p \in Procs |-> NoResult]
    /\ snap = [p \in Procs |-> [balance |-> balance, supply |-> supply]]

ConcInputs ==
    \A p \in Procs :
        call[p].op # "none" =>
            /\ call[p].amount.val % Unit(precision) = 0
            /\ call[p].amount.val >= Unit(precision)
            /\ call[p].address = "alice"
            /\ call[p].from_address \in {None, "our"}

NextConc ==
    \E p \in Procs :
        \/ BtsSend(p) /\ ConcInputs'
        \/ BtsSendOrIssue(p) /\ ConcInputs'
        \/ BtsSendBroadcast(p)
        \/ BtsIssueToSelf(p)
        \/ BtsSendAgain(p)
        \/ Return(p)

SpecConc == InitConc /\ [][NextConc]_vars

\* ---------------------------------------------------------------- claims
Fallback(p) == call[p].op = "send_or_issue"

Requested(p, e) == e.amount = call[p].amount

\* C1: when the first send of send_or_issue fails with NotEnoughBalance, the call
\* invokes issue(amount) to the platform account, then, only once that issue has
\* succeeded, send(amount) to the original address from the platform account, in
\* that order, and the dict it returns has send_type 'issue'.
C1_IssueThenSend ==
    \A p \in Procs :
        (Fallback(p) /\ Len(log[p]) >= 1 /\ log[p][1].res = "NotEnoughBalance") =>
            /\ Len(log[p]) >= 2 =>
                  /\ log[p][2].op = "issue"
                  /\ Requested(p, log[p][2])
                  /\ log[p][2].address = our_account
            /\ Len(log[p]) >= 3 =>
                  /\ log[p][2].res = "none"
                  /\ log[p][3].op = "send"
                  /\ Requested(p, log[p][3])
                  /\ log[p][3].address = call[p].address
                  /\ log[p][3].from_address = our_account
                  /\ log[p][3].from = our_account
            /\ Len(log[p]) <= 3
            /\ pc[p] = "DONE" => Len(log[p]) >= 2 /\ (log[p][2].res = "none" => Len(log[p]) = 3)
            /\ (pc[p] = "DONE" /\ result[p].err = "none") => result[p].send_type = "issue"

C1_Witness ==
    \E p \in Procs :
        /\ Fallback(p) /\ pc[p] = "DONE" /\ result[p].err = "none"
        /\ Len(log[p]) = 3 /\ log[p][1].res = "NotEnoughBalance"
        /\ result[p].send_type = "issue"

\* C2: when the first send of send_or_issue fails with anything but
\* NotEnoughBalance, issue is never invoked, no second send is attempted, nothing
\* is broadcast and the caller gets that same error.
C2_OtherErrorsPropagate ==
    \A p \in Procs :
        (Fallback(p) /\ Len(log[p]) >= 1
            /\ log[p][1].res \notin {"none", "NotEnoughBalance"}) =>
            /\ Len(log[p]) = 1
            /\ pc[p] = "DONE"
            /\ result[p] = Raise(log[p][1].res)
            /\ ops[p] = <<>>

C2_Witness ==
    \E p \in Procs :
        /\ Fallback(p) /\ pc[p] = "DONE" /\ Len(log[p]) = 1
        /\ result[p].err = "AccountNotFound"

\* C3: when the issue of the fallback fails, the caller gets that error, the second
\* send is never attempted, and balances and supply are what they were when the
\* call began.
C3_FailedIssuePropagates ==
    \A p \in Procs :
        (Fallback(p) /\ Len(log[p]) >= 2 /\ log[p][2].res # "none") =>
            /\ Len(log[p]) = 2
            /\ pc[p] = "DONE"
            /\ result[p] = Raise(log[p][2].res)
            /\ ops[p] = <<>>
            /\ balance = snap[p].balance /\ supply = snap[p].supply

C3_Witness ==
    \E p \in Procs :
        /\ Fallback(p) /\ pc[p] = "DONE" /\ Len(log[p]) = 2
        /\ log[p][2].op = "issue" /\ result[p].err = "IssuerKeyError"

\* C4: when the first send of send_or_issue succeeds the call is done: issue is
\* never invoked, send was invoked once and send_type is 'send'; a returned dict
\* has send_type 'issue' exactly when the call issued tokens.
C4_DirectSendIsSend ==
    \A p \in Procs :
        (Fallback(p) /\ pc[p] = "DONE" /\ result[p].err = "none") =>
            /\ log[p][1].res = "none" =>
                  /\ Len(log[p]) = 1
                  /\ Len(ops[p]) = 1 /\ ops[p][1].type = "transfer"
                  /\ result[p].send_type = "send"
            /\ result[p].send_type = "issue" <=>
                  \E i \in 1..Len(ops[p]) : ops[p][i].type = "asset_issue"
            /\ result[p].send_type \in {"send", "issue"}

C4_Witness ==
    \E p \in Procs :
        /\ Fallback(p) /\ pc[p] = "DONE" /\ result[p].err = "none"
        /\ Len(log[p]) = 1 /\ result[p].send_type = "send"

\* the call has issued and has not broadcast the retried send
IssuedNotSent(p) ==
    /\ Fallback(p) /\ Len(log[p]) >= 2 /\ log[p][2].res = "none"
    /\ Len(ops[p]) = 1

\* C5: once the issue of the fallback has succeeded and until the retried send is
\* broadcast (also when the call crashes or the retried send fails), the platform
\* balance and the supply are larger by exactly the issued amount than when the
\* call began and no other balance has changed: nothing is rolled back.
C5_PartialOutcome ==
    \A p \in Procs :
        IssuedNotSent(p) =>
            LET n == IntAmount(FormatAmount(call[p].amount, precision))
            IN  /\ n >= 1
                /\ ops[p][1] = [type |-> "asset_issue", from |-> our_account,
                                to |-> our_account, amount |-> n, fee |-> 0,
                                value |-> get_decimal_from_amount(n)]
                /\ supply = snap[p].supply + n
                /\ balance = [snap[p].balance EXCEPT ![our_account] = @ + n]

C5_Witness ==
    \E p \in Procs :
        /\ IssuedNotSent(p) /\ pc[p] = "DONE" /\ Len(log[p]) = 3
        /\ result[p].err = "ArithmeticError"
        /\ supply > snap[p].supply

C5_WitnessCrash ==
    \E p \in Procs : IssuedNotSent(p) /\ pc[p] = "CRASHED" /\ Len(log[p]) = 2

C7_AmountPlusFee ==
    \A p \in Procs :
        (backend = "Bitshares" /\ pc[p] = "DONE" /\ result[p].err = "none"
            /\ Last(log[p]).op = "send") =>
            LET op == Last(ops[p])
            IN  /\ result[p].amount + result[p].fee = FormatAmount(call[p].amount, precision)
                /\ IntAmount(result[p].amount) + IntAmount(result[p].fee)
                      = IntAmount(FormatAmount(call[p].amount, precision))
                /\ op.type = "transfer"
                /\ op.amount = IntAmount(result[p].amount)
                /\ op.fee = IntAmount(result[p].fee)
                /\ result[p].amount % Unit(precision) = 0
                /\ result[p].fee % Unit(precision) = 0

C7_Witness ==
    \E p \in Procs :
        /\ backend = "Bitshares" /\ pc[p] = "DONE" /\ result[p].err = "none"
        /\ Last(log[p]).op = "send"
        /\ result[p].fee > 0 /\ result[p].amount > 0

\* normalize(amount, precision) as the contract states it: cut to the asset's
\* precision, never rounded up
Normalize(amount, p) == (amount.val \div Unit(p)) * Unit(p)

Range(sq) == {sq[i] : i \in 1..Len(sq)}

\* a call whose first invocation is a send
SendCall(p) ==
    /\ call[p].op \in {"send", "send_or_issue"}
    /\ Len(log[p]) >= 1 /\ log[p][1].op = "send"

\* the first send of the call got as far as comparing the source's balance
ReachedBalanceCheck(p) ==
    \/ Range(log[p][1].remote) \cap {"balance", "get_balance"} # {}
    \/ backend = "SteemEngine" /\ log[p][1].res \in {"NotEnoughBalance", "AuthorityMissing", "none"}

\* the source's balance when the call began, as a decimal value
SourceBalance(p) == get_decimal_from_amount(snap[p].balance[log[p][1].from])

\* C8: on every backend a send fails with NotEnoughBalance exactly when every
\* earlier check passed and the source's balance is below the requested amount
\* normalized to the asset's precision; an amount equal to the balance passes.
C8_NotEnoughBalanceExact ==
    \A p \in Procs :
        SendCall(p) =>
            /\ log[p][1].res = "NotEnoughBalance" =>
                  /\ ReachedBalanceCheck(p)
                  /\ SourceBalance(p) < Normalize(call[p].amount, precision)
            /\ (ReachedBalanceCheck(p)
                  /\ SourceBalance(p) < Normalize(call[p].amount, precision)) =>
                  log[p][1].res = "NotEnoughBalance"

\* C9: on every backend an issue or send whose normalized amount is below one
\* minimum unit is rejected with ArithmeticError before any remote call is made.
C9_BelowMinimumBeforeRemote ==
    \A p \in Procs :
        \A i \in 1..Len(log[p]) :
            (log[p][i].from_address # None \/ our_account # None \/ log[p][i].op = "issue") =>
                (Normalize(log[p][i].amount, precision) < Unit(precision) =>
                    /\ log[p][i].res = "ArithmeticError"
                    /\ log[p][i].remote = <<>>)

\* C10: the amount a broadcast operation carries has at most as many fractional
\* digits as the asset's precision and never exceeds the requested amount.
C10_TruncatedNeverMore ==
    \A p \in Procs :
        \A i \in 1..Len(ops[p]) :
            /\ ops[p][i].value % Unit(precision) = 0
            /\ ops[p][i].value + get_decimal_from_amount(ops[p][i].fee) <= call[p].amount.val

\* the invocation was rejected by the minimum-unit check (not by the check that
\* follows the fee subtraction)
RejectedByMinimum(e) ==
    e.res = "ArithmeticError" /\ "add_required_fees" \notin Range(e.remote)

\* the invocation got past the minimum-unit check and went on to look up accounts
PassedMinimum(e) ==
    Range(e.remote) \cap {"get_account_obj", "Account"} # {}

\* C11: is_amount_above_minimum of Bitshares and the inline check of Steem send
\* reject an amount exactly when it is below one minimum unit of the asset: an
\* amount of exactly one minimum unit, and every larger one, is accepted.
C11_MinimumUnitExact ==
    \A p \in Procs :
        \A i \in 1..Len(log[p]) :
            backend \in {"Bitshares", "Steem"} =>
                /\ RejectedByMinimum(log[p][i]) => log[p][i].str_amount < Unit(precision)
                /\ PassedMinimum(log[p][i]) => log[p][i].str_amount >= Unit(precision)

\* C12: address_valid never raises on any backend: whatever the remote lookup does
\* it returns a boolean, and it returns true only when the lookup answered that the
\* account exists.
C12_AddressValidNeverRaises ==
    \A p \in Procs :
        (call[p].op = "address_valid" /\ pc[p] = "DONE") =>
            /\ result[p].err = "none"
            /\ result[p].ret \in {"True", "False"}
            /\ result[p].ret = "True" <=>
                  (call[p].outcome = "answer" /\ AccountFound(call[p].address))

\* the account a balance query is about
QueriedAccount(p) == IF call[p].address = None THEN our_account ELSE call[p].address

\* the sum the contract asks for: the transfers to the account whose memo is the
\* requested one, letter case ignored unless memo_case is set
RECURSIVE ExpectedTotal(_, _, _, _, _)
ExpectedTotal(txs, n, address, memo, memo_case) ==
    IF n = 0 THEN 0
    ELSE ExpectedTotal(txs, n - 1, address, memo, memo_case)
         + (IF /\ txs[n].to = address
               /\ IF memo_case THEN txs[n].memo = memo
                  ELSE lower(txs[n].memo) = lower(memo)
            THEN Quantity(n) ELSE 0)

\* C13: balance with a non-empty memo returns the sum of the inbound transfers to
\* the account whose recorded memo equals the requested one, ignoring letter case
\* when memo_case is false and exactly when it is true.
C13_MemoBalance ==
    \A p \in Procs :
        (/\ call[p].op = "balance" /\ pc[p] = "DONE"
         /\ backend \in {"Bitshares", "SteemEngine"}
         /\ call[p].memo # None /\ AccountFound(QueriedAccount(p))) =>
            /\ result[p].err = "none"
            /\ result[p].amount = ExpectedTotal(call[p].txs, Len(call[p].txs),
                    QueriedAccount(p), call[p].memo, call[p].memo_case)

\* C14: on every backend balance(account), for an account the network does not
\* know, fails with the shared AccountNotFound error.
C14_BalanceOfUnknownAccount ==
    \A p \in Procs :
        (/\ call[p].op = "balance" /\ pc[p] = "DONE" /\ call[p].memo = None
         /\ QueriedAccount(p) # None /\ ~AccountFound(QueriedAccount(p))) =>
            result[p].err = "AccountNotFound"

\* the error kinds the handlers share; AttributeError is the configuration error
SharedErrors ==
    {"AccountNotFound", "TokenNotFound", "NotEnoughBalance", "AuthorityMissing",
     "IssuerKeyError", "ArithmeticError", "AttributeError"}

\* C15: every error issue, send or send_or_issue hands to its caller is one of the
\* shared kinds; a send whose source or destination account does not exist, once
\* past the checks that come before the account lookups, fails with
\* AccountNotFound; a missing key is AuthorityMissing in send and IssuerKeyError in
\* issue.
C15_OnlySharedErrors ==
    \A p \in Procs :
        (call[p].op \in {"send", "issue", "send_or_issue"} /\ pc[p] = "DONE") =>
            /\ result[p].err \in SharedErrors \cup {"none"}
            /\ \A i \in 1..Len(log[p]) :
                  LET e == log[p][i]
                  IN  /\ e.res \in SharedErrors \cup {"none"}
                      /\ e.op = "send" => e.res # "IssuerKeyError"
                      /\ e.op = "issue" => e.res # "AuthorityMissing"
                      /\ (/\ e.op = "send"
                          /\ ~AccountFound(e.from) \/ ~AccountFound(e.address)
                          /\ e.res \notin {"AttributeError", "AuthorityMissing",
                                           "TokenNotFound", "ArithmeticError"}) =>
                             e.res = "AccountNotFound"

\* C16: a send takes its source from from_address when that is not empty and from
\* the configured our_account otherwise; when both are empty it raises the
\* configuration error (AttributeError) before any remote call, key loading or
\* broadcast, and it raises that error in no other case.
C16_SourceResolution ==
    \A p \in Procs :
        \A i \in 1..Len(log[p]) :
            LET e == log[p][i]
            IN  e.op = "send" =>
                    /\ e.from = (IF e.from_address # None THEN e.from_address ELSE our_account)
                    /\ (e.from_address = None /\ our_account = None) =>
                          /\ e.res = "AttributeError"
                          /\ e.remote = <<>>
                          /\ ops[p] = <<>>
                          /\ balance = snap[p].balance /\ supply = snap[p].supply
                    /\ e.res = "AttributeError" =>
                          (e.from_address = None /\ our_account = None)

C16_Witness ==
    \E p \in Procs :
        /\ pc[p] = "DONE" /\ call[p].op = "send" /\ Len(log[p]) = 1
        /\ call[p].from_address = None /\ our_account = None
        /\ result[p].err = "AttributeError"

C16_WitnessExplicit ==
    \E p \in Procs :
        /\ pc[p] = "DONE" /\ call[p].op = "send" /\ result[p].err = "none"
        /\ call[p].from_address = "our" /\ our_account = None
        /\ result[p].from = "our"

\* the call has failed and none of its steps was a successful issue
FailedWithoutIssue(p) ==
    /\ pc[p] = "DONE" /\ result[p].err # "none"
    /\ call[p].op \in {"send", "issue", "send_or_issue"}
    /\ ~(Fallback(p) /\ Len(log[p]) >= 2 /\ log[p][2].res = "none")

\* C17: a send or an issue that returns an error has broadcast nothing: every
\* balance and the supply are what they were when the call began; the one call
\* that may fail after a side effect is a send_or_issue whose issue went through.
C17_FailureChangesNothing ==
    \A p \in Procs :
        FailedWithoutIssue(p) =>
            /\ ops[p] = <<>>
            /\ balance = snap[p].balance
            /\ supply = snap[p].supply

C17_Witness ==
    \E p \in Procs :
        /\ FailedWithoutIssue(p) /\ call[p].op = "send"
        /\ result[p].err = "AuthorityMissing"
        /\ "add_required_fees" \in Range(log[p][1].remote)
        /\ balance[log[p][1].from] >= IntAmount(log[p][1].str_amount)

\* a health or health_test call has just returned
HealthReturns(p) ==
    /\ pc[p] = "idle" /\ pc'[p] = "DONE"
    /\ call'[p].op \in {"health", "health_test"}

\* C18: health never lets an error out: when a remote call of the check fails the
\* status of the record is not 'Okay', and it is 'Okay' only when the platform
\* account exists and the asset lookup found the asset; health_test returns true
\* exactly when that status is 'Okay' and never raises.
C18_HealthNeverRaises ==
    [][\A p \in Procs :
          HealthReturns(p) =>
              LET status == IF call'[p].op = "health" THEN result'[p].ret
                            ELSE result'[p].status
              IN  /\ result'[p].err = "none"
                  /\ call'[p].outcome # "none" => status # "Okay"
                  /\ status = "Okay" =>
                        /\ AccountFound(our_account)
                        /\ backend # "Steem" => assetExists
                  /\ call'[p].op = "health_test" =>
                        /\ result'[p].ret \in {"True", "False"}
                        /\ result'[p].ret = "True" <=> status = "Okay"]_vars

C18_Witness ==
    \E p \in Procs :
        /\ pc[p] = "DONE" /\ call[p].op = "health" /\ call[p].outcome = "balance"
        /\ result[p].err = "none" /\ result[p].ret # "Okay"

C18_WitnessOkay ==
    \E p \in Procs :
        /\ pc[p] = "DONE" /\ call[p].op = "health_test"
        /\ result[p].ret = "True"

\* the requested amount, a Decimal, is below one minimum unit once normalized
BelowMinimum(e) ==
    e.amount.kind = "Decimal" /\ Normalize(e.amount, precision) < Unit(precision)

\* C19: in send (BitsharesManager and SteemManager) the error reported is that of
\* the earliest failing step in the order: amount below the minimum unit
\* (ArithmeticError), unknown asset (TokenNotFound), missing source or destination
\* (AccountNotFound), insufficient balance (NotEnoughBalance).
C19_SendCheckOrder ==
    \A p \in Procs :
        \A i \in 1..Len(log[p]) :
            LET e == log[p][i]
            IN  (e.op = "send" /\ backend \in {"Bitshares", "Steem"}
                    /\ e.amount.kind = "Decimal") =>
                    /\ (BelowMinimum(e) /\ e.res \in {"ArithmeticError", "TokenNotFound",
                            "AccountNotFound", "NotEnoughBalance"}) =>
                          e.res = "ArithmeticError"
                    /\ e.res \in {"TokenNotFound", "AccountNotFound", "NotEnoughBalance"} =>
                          ~BelowMinimum(e)
                    /\ e.res = "NotEnoughBalance" =>
                          AccountFound(e.from) /\ AccountFound(e.address)

\* C20: in issue (BitsharesManager and SteemEngineManager) each violated
\* precondition gives its own error, and the error reported is that of the earliest
\* in the order: unknown asset (TokenNotFound), amount below the minimum unit
\* (ArithmeticError), missing destination (AccountNotFound), missing keys of the
\* signer (IssuerKeyError).
C20_IssueCheckOrder ==
    \A p \in Procs :
        \A i \in 1..Len(log[p]) :
            LET e == log[p][i]
            IN  (e.op = "issue" /\ e.amount.kind = "Decimal") =>
                    /\ e.res \in {"none", "TokenNotFound", "ArithmeticError",
                                  "AccountNotFound", "IssuerKeyError"}
                    /\ BelowMinimum(e) => e.res \in {"TokenNotFound", "ArithmeticError"}
                    /\ ~AccountFound(e.address) =>
                          e.res \in {"TokenNotFound", "ArithmeticError", "AccountNotFound"}
                    /\ e.res = "AccountNotFound" => ~BelowMinimum(e)
                    /\ e.res = "IssuerKeyError" =>
                          ~BelowMinimum(e) /\ AccountFound(e.address)

\* the invocation asked the network for its fee
FeeQueried(e) == e.op = "send" /\ "add_required_fees" \in Range(e.remote)

\* C21: a Bitshares send whose amount less the network fee is below one minimum
\* unit (the fee equals or exceeds the amount) fails with ArithmeticError and
\* broadcasts nothing; every transfer that is broadcast carries at least one
\* minimum unit.
C21_FeeLeavesAtLeastOneUnit ==
    \A p \in Procs :
        backend = "Bitshares" =>
            /\ \A i \in 1..Len(log[p]) :
                  LET e == log[p][i]
                  IN  (FeeQueried(e) /\ IntAmount(e.str_amount) - e.raw_fee < 1) =>
                          /\ e.res = "ArithmeticError"
                          /\ "broadcast" \notin Range(e.remote)
                          /\ \A k \in 1..Len(ops[p]) : ops[p][k].type # "transfer"
            /\ \A k \in 1..Len(ops[p]) :
                  ops[p][k].type = "transfer" => ops[p][k].amount >= 1

C21_Witness ==
    \E p \in Procs :
        /\ backend = "Bitshares" /\ pc[p] = "DONE" /\ call[p].op = "send"
        /\ FeeQueried(log[p][1])
        /\ log[p][1].raw_fee = IntAmount(log[p][1].str_amount)
        /\ result[p].err = "ArithmeticError"

C21_WitnessFeeLarger ==
    \E p \in Procs :
        /\ backend = "Bitshares" /\ pc[p] = "DONE"
        /\ FeeQueried(Last(log[p]))
        /\ Last(log[p]).raw_fee > IntAmount(Last(log[p]).str_amount)
        /\ result[p].err = "ArithmeticError"

\* the last invocation of the call broadcast its transfer or its issue
BroadcastDone(p) ==
    /\ pc[p] = "DONE" /\ call[p].op \in {"send", "issue", "send_or_issue"}
    /\ Len(log[p]) >= 1 /\ Last(log[p]).res = "none"

\* C22: a send or issue whose operation was broadcast returns its dict whether or
\* not the transaction id could be recovered: txid is the id or None, coin amount,
\* fee, source and send_type are filled in, and no error is reported.
C22_TxidMayBeAbsent ==
    \A p \in Procs :
        BroadcastDone(p) =>
            /\ result[p].err = "none"
            /\ result[p].txid \in {None, "txid"}
            /\ ops[p] # <<>>
            /\ result[p].amount = (IF backend = "Bitshares"
                                   THEN get_decimal_from_amount(Last(ops[p]).amount)
                                   ELSE Last(ops[p]).value)
            /\ result[p].fee = get_decimal_from_amount(Last(ops[p]).fee)
            /\ result[p].from = Last(log[p]).from
            /\ result[p].send_type \in {"send", "issue"}

C22_Witness ==
    \E p \in Procs :
        /\ BroadcastDone(p) /\ backend = "Steem"
        /\ ops[p] # <<>> /\ balance # snap[p].balance
        /\ result[p].err = "none" /\ result[p].txid = None

\* caller p has just run the checks of a new send invocation
NewSend(p) ==
    /\ Len(log'[p]) = Len(log[p]) + 1
    /\ Last(log'[p]).op = "send"

\* C23: nothing serializes the invocations on one account: the balance check of a
\* send compares the amount with the source's balance on the ledger at that
\* moment and takes no account of transfers other callers have checked and not
\* yet broadcast, so two sends whose amounts add up to more than the balance can
\* both pass it, and a send can drain the platform account between the issue
\* and the retried send of a fallback.
C23_BalanceCheckSeesLedgerOnly ==
    [][\A p \in Procs :
          NewSend(p) =>
              LET e == Last(log'[p])
              IN  e.res \in {"none", "NotEnoughBalance"} =>
                      (e.res = "NotEnoughBalance" <=>
                          get_decimal_from_amount(balance[e.from]) < e.str_amount)]_vars

C23_Witness ==
    \E p, q \in Procs :
        /\ p # q
        /\ pc[p] = "SEND_BROADCAST" /\ pc[q] = "SEND_BROADCAST"
        /\ Last(log[p]).from = Last(log[q]).from
        /\ IntAmount(Last(log[p]).str_amount) <= balance[Last(log[p]).from]
        /\ IntAmount(Last(log[q]).str_amount) <= balance[Last(log[p]).from]
        /\ IntAmount(Last(log[p]).str_amount) + IntAmount(Last(log[q]).str_amount)
              > balance[Last(log[p]).from]

C23_WitnessDrained ==
    \E p, q \in Procs :
        /\ p # q
        /\ Fallback(p) /\ pc[p] = "DONE" /\ Len(log[p]) = 3
        /\ log[p][2].res = "none" /\ log[p][3].res = "NotEnoughBalance"
        /\ ops[q] # <<>>

\* the call went through the fallback and returned its dict
FallbackDone(p) ==
    /\ Fallback(p) /\ pc[p] = "DONE" /\ result[p].err = "none"
    /\ Len(log[p]) = 3

\* C24: after a send_or_issue that completed through the fallback, with nothing
\* else touching the ledger, the supply has grown by the whole normalized amount
\* (not by the shortfall), the platform account holds what it held before the
\* call, the destination has received the amount less the fee, and no other
\* account has been debited.
C24_FallbackAccounting ==
    \A p \in Procs :
        FallbackDone(p) =>
            LET n == IntAmount(Normalize(call[p].amount, precision))
                fee == IntAmount(result[p].fee)
                dest == call[p].address
            IN  /\ ops[p][1].type = "asset_issue" /\ ops[p][1].amount = n
                /\ supply = snap[p].supply + n
                /\ balance[our_account] = snap[p].balance[our_account]
                /\ balance[dest] = snap[p].balance[dest] + n - fee
                /\ IntAmount(result[p].amount) = n - fee
                /\ \A a \in Accounts \ {our_account, dest} :
                      balance[a] = snap[p].balance[a]

C24_Witness ==
    \E p \in Procs :
        /\ FallbackDone(p)
        /\ snap[p].balance[our_account] >= 1
        /\ result[p].fee > 0
        /\ supply > snap[p].supply + 1

\* the asset and the keys are as the issue of the fallback found them
AsIssueLeftIt == assetExists /\ keys = "ok"

\* caller p runs the checks of the retried send of a fallback
RetriedSendChecks(p) ==
    pc[p] = "SEND_AGAIN" /\ NewSend(p)

\* caller p ends the try block of the retried send of a fallback
RetriedSendEnds(p) ==
    /\ Fallback(p) /\ Len(log[p]) = 3
    /\ pc[p] = "SEND_BROADCAST" /\ pc'[p] = "DONE"

\* C25: in a send_or_issue with nothing interleaved, once the issue has gone
\* through the retried send does not fail with NotEnoughBalance, with
\* ArithmeticError for an amount below the minimum, with TokenNotFound or because
\* the platform account is missing; it can fail only on the destination account,
\* on a fee that leaves less than one minimum unit, or on signing.
C25_RetriedSendFailures ==
    [][\A p \in Procs :
          /\ (RetriedSendChecks(p) /\ AsIssueLeftIt) =>
                /\ Last(log'[p]).res \in {"none", "AccountNotFound"}
                /\ Last(log'[p]).res = "AccountNotFound" =>
                      (AccountFound(our_account) /\ ~AccountFound(call[p].address))
                /\ get_decimal_from_amount(balance[our_account]) >= Last(log'[p]).str_amount
          /\ (RetriedSendEnds(p) /\ AsIssueLeftIt) =>
                /\ Last(log'[p]).res \in {"none", "ArithmeticError", "AuthorityMissing"}
                /\ Last(log'[p]).res = "ArithmeticError" =>
                      Last(log'[p]).raw_fee >= IntAmount(Last(log'[p]).str_amount)]_vars

C25_Witness ==
    \E p \in Procs :
        /\ Fallback(p) /\ pc[p] = "DONE" /\ Len(log[p]) = 3
        /\ log[p][2].res = "none"
        /\ FeeQueried(log[p][3])
        /\ log[p][3].res = "ArithmeticError"
        /\ log[p][3].raw_fee >= IntAmount(log[p][3].str_amount)
        /\ AsIssueLeftIt

====
